---- MODULE Spec2Model ----
(***************************************************************************)
(* Model of the Essentia full node service (eth/backend.go): construction  *)
(* (New, CreateConsensusEngine), the service lifecycle (AddLesServer,      *)
(* Start, Stop) and the mining controls (Etherbase, SetEtherbase,          *)
(* StartMining, StopMining).                                               *)
(***************************************************************************)
EXTENDS Integers, Sequences, FiniteSets, TLC

VARIABLES
    input,      \* New's arguments and environment: config, stored database state
    output,     \* what New / CreateConsensusEngine returned and did ("none" before)
    node,       \* the Essentia object's lifecycle fields and its subsystems
    mining,     \* etherbase, account manager, engine authorisation, miner
    thr         \* each caller's position inside the operation it runs

vars == <<input, output, node, mining, thr>>

(***************************************************************************)
(* Bounds of the model.                                                    *)
(***************************************************************************)
\* database schema versions range over 0..MaxVersion
MaxVersion == 2
\* peer counts (config.LightPeers, srvr.MaxPeers) range over 0..MaxPeerCount
MaxPeerCount == 2
\* at most MaxStarts calls of Start and MaxStops calls of Stop are followed
MaxStarts == 2
MaxStops == 2
\* blocks 0..MaxBlocks-1 can be imported
MaxBlocks == 5
\* params.BloomBitsBlocks, the number of blocks of one bloom section (scaled down)
BloomBitsBlocks == 2
\* the thread count and the batch size ServiceFilter passes on (scaled down)
bloomFilterThreads == 2
bloomRetrievalBatch == 1
\* at most MaxFilterCalls calls of ServiceFilter per matcher session are followed
MaxFilterCalls == 1
\* params.MaximumExtraDataSize, in bytes (scaled down)
MaximumExtraDataSize == 2
\* extra-data payloads are at most MaxExtraLen bytes long
MaxExtraLen == 4
\* an Enodes collection is created with at most MaxNewSize slots and is followed
\* while it has at most MaxEnodes
MaxNewSize == 2
MaxEnodes == 3
\* the simulated network has the nodes 1..MaxSimNodes
MaxSimNodes == 4

(***************************************************************************)
(* Values.                                                                 *)
(***************************************************************************)
Nil == "nil"
\* common.Address{} and two distinct non-zero addresses
ZeroAddr == "0x0"
Addrs == {"0xA", "0xB"}

\* downloader.SyncMode: the three enumerated modes and one out-of-range value
SyncModes == {"full", "fast", "light", "invalid"}
LightSync == "light"
IsValid(mode) == mode \in {"full", "fast", "light"}

\* ethash.Mode values; "fullfake" and "other" have no case of their own
PowModes == {"normal", "shared", "test", "fake", "fullfake", "other"}
ModeFake == "fake"
ModeTest == "test"
ModeShared == "shared"

\* params.ChainConfig.Clique: nil or one of two sub-configurations
CliqueConfigs == {Nil, "clique1", "clique2"}
\* outcome of core.SetupGenesisBlock: nil, *params.ConfigCompatError, any other error
GenesisErrs == {Nil, "compat", "other"}
\* database handles ctx.OpenDatabase can return
DbHandles == {"dbX", "dbY"}

(***************************************************************************)
(* CreateConsensusEngine                                                   *)
(***************************************************************************)
\* a Clique engine bound to its sub-configuration and the database
CliqueNew(cliqueCfg, db) ==
    [kind |-> "clique", config |-> cliqueCfg, db |-> db, variant |-> Nil, cpuMining |-> Nil]

\* an ethash engine: its variant, and whether SetThreads(-1) disabled CPU mining
EthashEngine(variant, cpuMining) ==
    [kind |-> "ethash", config |-> Nil, db |-> Nil, variant |-> variant, cpuMining |-> cpuMining]

\* no engine was created
NoEngine ==
    [kind |-> Nil, config |-> Nil, db |-> Nil, variant |-> Nil, cpuMining |-> Nil]

\* faulty variant: the PoW mode switch is consulted before the Clique check
CreateConsensusEngine_PowFirst(powMode, clique, db) ==
    CASE powMode = ModeFake   -> EthashEngine("fake", "default")
      [] powMode = ModeTest   -> EthashEngine("test", "default")
      [] powMode = ModeShared -> EthashEngine("shared", "default")
      [] OTHER -> IF clique # Nil THEN CliqueNew(clique, db)
                                  ELSE EthashEngine("real", "disabled")


\* faulty variant: the full-fake mode is taken for the fake mode
CreateConsensusEngine_FullFake(powMode, clique, db) ==
    IF clique # Nil
    THEN CliqueNew(clique, db)
    ELSE CASE powMode \in {ModeFake, "fullfake"} -> EthashEngine("fake", "default")
           [] powMode = ModeTest   -> EthashEngine("test", "default")
           [] powMode = ModeShared -> EthashEngine("shared", "default")
           [] OTHER                -> EthashEngine("real", "disabled")

CreateConsensusEngine(powMode, clique, db) ==
    IF clique # Nil
    THEN CliqueNew(clique, db)
    ELSE CASE powMode = ModeFake   -> EthashEngine("fake", "default")
           [] powMode = ModeTest   -> EthashEngine("test", "default")
           [] powMode = ModeShared -> EthashEngine("shared", "default")
           [] OTHER                -> EthashEngine("real", "disabled")

(***************************************************************************)
(* New                                                                     *)
(***************************************************************************)
\* the inputs of New: the configuration and what the environment answers
NewInputs ==
    [ SyncMode           : SyncModes,
      openDbErr          : BOOLEAN,          \* ctx.OpenDatabase fails
      db                 : DbHandles,        \* the handle it returns otherwise
      genesisErr         : GenesisErrs,
      Clique             : CliqueConfigs,    \* chainConfig.Clique
      PowMode            : PowModes,         \* config.Ethash.PowMode
      SkipBcVersionCheck : BOOLEAN,
      bcVersion          : 0..MaxVersion,    \* the stored version marker (0: absent)
      BlockChainVersion  : 1..MaxVersion,    \* core.BlockChainVersion
      chainErr           : BOOLEAN,          \* core.NewBlockChain fails
      pmErr              : BOOLEAN,          \* NewProtocolManager fails
      Etherbase          : {ZeroAddr},
      LightServ          : {0},
      LightPeers         : {0} ]

\* a configuration New succeeds on: full sync, proof of work, a fresh database
PlainInput ==
    [ SyncMode |-> "full", openDbErr |-> FALSE, db |-> "dbX", genesisErr |-> Nil,
      Clique |-> Nil, PowMode |-> "normal", SkipBcVersionCheck |-> FALSE,
      bcVersion |-> 0, BlockChainVersion |-> 1, chainErr |-> FALSE, pmErr |-> FALSE,
      Etherbase |-> ZeroAddr, LightServ |-> 0, LightPeers |-> 0 ]

NoErr == [kind |-> Nil, a |-> 0, b |-> 0]
Err(kind, a, b) == [kind |-> kind, a |-> a, b |-> b]

\* what a call of New returned and what it did on the way
NewResult(err, isNode, log, marker, engine, in) ==
    [ err       |-> err,
      node      |-> isNode,       \* a non-nil *Essentia was returned
      log       |-> log,          \* the calls New made, in order
      marker    |-> marker,       \* the database version marker afterwards
      engine    |-> engine,
      chainDb   |-> IF isNode THEN in.db ELSE Nil,
      etherbase |-> IF isNode THEN in.Etherbase ELSE ZeroAddr ]

\* the result before any call
NoResult ==
    [ err |-> NoErr, node |-> FALSE, log |-> <<>>, marker |-> 0, engine |-> NoEngine,
      chainDb |-> Nil, etherbase |-> ZeroAddr ]

\* lines 161-179: pool, protocol manager, miner, API backend
NewTail(in, log, marker, engine) ==
    LET l1 == log \o <<"NewTxPool", "NewProtocolManager">>
    IN  IF in.pmErr
        THEN NewResult(Err("protocol manager", 0, 0), FALSE, l1, marker, engine, in)
        ELSE NewResult(NoErr, TRUE,
                       l1 \o <<"miner.New", "miner.SetExtra", "gasprice.NewOracle">>,
                       marker, engine, in)


\* faulty variant: the bloom indexer is started before the chain is rewound
NewChain_IndexerFirst(in, log, marker, engine) ==
    LET l1 == log \o <<"NewBlockChain">>
        l2 == IF in.genesisErr = "compat"
              THEN l1 \o <<"bloomIndexer.Start", "SetHead", "WriteChainConfig">>
              ELSE l1 \o <<"bloomIndexer.Start">>
    IN  IF in.chainErr
        THEN NewResult(Err("blockchain", 0, 0), FALSE, l1, marker, engine, in)
        ELSE NewTail(in, l2, marker, engine)

\* lines 145-159: the chain, the rewind on a compatibility error, the indexer start
NewChain(in, log, marker, engine) ==
    LET l1 == log \o <<"NewBlockChain">>
        l2 == IF in.genesisErr = "compat"
              THEN l1 \o <<"SetHead", "WriteChainConfig">>
              ELSE l1
    IN  IF in.chainErr
        THEN NewResult(Err("blockchain", 0, 0), FALSE, l1, marker, engine, in)
        ELSE NewTail(in, l2 \o <<"bloomIndexer.Start">>, marker, engine)

\* faulty variant: the version check only rejects a stored version above the current one
NewVersionCheck_OnlyNewer(in, log, engine) ==
    IF in.SkipBcVersionCheck
    THEN NewChain(in, log, in.bcVersion, engine)
    ELSE LET l1 == log \o <<"ReadDatabaseVersion">>
         IN  IF in.bcVersion > in.BlockChainVersion
             THEN NewResult(Err("version mismatch", in.bcVersion, in.BlockChainVersion),
                            FALSE, l1, in.bcVersion, engine, in)
             ELSE NewChain(in, l1 \o <<"WriteDatabaseVersion">>,
                           in.BlockChainVersion, engine)


\* faulty variant: the marker is written although the check is skipped
NewVersionCheck_SkipWrites(in, log, engine) ==
    IF in.SkipBcVersionCheck
    THEN NewChain(in, log \o <<"WriteDatabaseVersion">>, in.BlockChainVersion, engine)
    ELSE LET l1 == log \o <<"ReadDatabaseVersion">>
         IN  IF in.bcVersion # in.BlockChainVersion /\ in.bcVersion # 0
             THEN NewResult(Err("version mismatch", in.bcVersion, in.BlockChainVersion),
                            FALSE, l1, in.bcVersion, engine, in)
             ELSE NewChain(in, l1 \o <<"WriteDatabaseVersion">>,
                           in.BlockChainVersion, engine)

\* lines 138-144: the schema version check
NewVersionCheck(in, log, engine) ==
    IF in.SkipBcVersionCheck
    THEN NewChain(in, log, in.bcVersion, engine)
    ELSE LET l1 == log \o <<"ReadDatabaseVersion">>
         IN  IF in.bcVersion # in.BlockChainVersion /\ in.bcVersion # 0
             THEN NewResult(Err("version mismatch", in.bcVersion, in.BlockChainVersion),
                            FALSE, l1, in.bcVersion, engine, in)
             ELSE NewChain(in, l1 \o <<"WriteDatabaseVersion">>,
                           in.BlockChainVersion, engine)

\* lines 111-134: the database, the genesis block, the Essentia object
NewOpen(in) ==
    LET l1 == <<"OpenDatabase">>
        l2 == l1 \o <<"SetupGenesisBlock">>
        engine == CreateConsensusEngine(in.PowMode, in.Clique, in.db)
    IN  IF in.openDbErr
        THEN NewResult(Err("open database", 0, 0), FALSE, l1, in.bcVersion, NoEngine, in)
        ELSE IF in.genesisErr # Nil /\ in.genesisErr # "compat"
        THEN NewResult(Err("genesis", 0, 0), FALSE, l2, in.bcVersion, NoEngine, in)
        ELSE NewVersionCheck(in, l2 \o <<"CreateConsensusEngine", "NewBloomIndexer">>,
                             engine)

\* faulty variant: the sync mode is validated only after the database was opened
New_LateSyncCheck(in) ==
    LET r == NewOpen(in)
    IN  IF in.SyncMode = LightSync
        THEN NewResult(Err("light sync", 0, 0), FALSE, <<"OpenDatabase">>,
                       in.bcVersion, NoEngine, in)
        ELSE IF ~IsValid(in.SyncMode)
        THEN NewResult(Err("invalid sync mode", 0, 0), FALSE, <<"OpenDatabase">>,
                       in.bcVersion, NoEngine, in)
        ELSE r

\* New, lines 104-180
New(in) ==
    IF in.SyncMode = LightSync
    THEN NewResult(Err("light sync", 0, 0), FALSE, <<>>, in.bcVersion, NoEngine, in)
    ELSE IF ~IsValid(in.SyncMode)
    THEN NewResult(Err("invalid sync mode", 0, 0), FALSE, <<>>, in.bcVersion, NoEngine, in)
    ELSE NewOpen(in)

(***************************************************************************)
(* The constructed node.                                                   *)
(***************************************************************************)

(***************************************************************************)
(* makeExtraData, lines 182-197                                            *)
(***************************************************************************)
\* the byte strings of at most MaxExtraLen bytes, over two byte values
Bytes == {0, 255}
Payloads == UNION { [1..n -> Bytes] : n \in 0..MaxExtraLen }

\* faulty variant: a payload of exactly the maximum size is dropped as well
makeExtraData_AtLimit(extra, default) ==
    LET chosen == IF Len(extra) = 0 THEN default ELSE extra
    IN  IF Len(chosen) >= MaximumExtraDataSize THEN <<>> ELSE chosen

\* makeExtraData(extra); default: what rlp.EncodeToBytes makes of the client version,
\* "geth", runtime.Version() and runtime.GOOS on this build
makeExtraData(extra, default) ==
    LET chosen == IF Len(extra) = 0 THEN default ELSE extra
    IN  IF Len(chosen) > MaximumExtraDataSize THEN <<>> ELSE chosen

\* faulty variant: the database is closed before the pool is stopped
StopCalls_DbEarly ==
    << "bloomIndexer.Close", "blockchain.Stop", "protocolManager.Stop",
       "lesServer.Stop", "chainDb.Close", "txPool.Stop", "miner.Stop",
       "eventMux.Stop", "close(shutdownChan)" >>

\* the calls Stop makes, in the order of lines 412-423
StopCalls ==
    << "bloomIndexer.Close", "blockchain.Stop", "protocolManager.Stop",
       "lesServer.Stop", "txPool.Stop", "miner.Stop", "eventMux.Stop",
       "chainDb.Close", "close(shutdownChan)" >>


(***************************************************************************)
(* Bloom retrieval: the chain's imported blocks, the bloom indexer's       *)
(* sections, the matcher sessions and the workers behind bloomRequests.    *)
(***************************************************************************)
\* the matcher sessions: one of the full node's filter API, one of the light path
Sessions == {"full", "light"}
\* the sections there can be, and the ranges of sections a session can ask for
AllSections == 0..((MaxBlocks \div BloomBitsBlocks) - 1)
Ranges == { lo..hi : lo \in AllSections, hi \in AllSections } \ {{}}
\* the service workers startBloomHandlers spawns
Pool == {1, 2}
\* a worker that serves no request
NoRequest == [s |-> Nil, secs |-> {}]

\* a matcher session nobody has asked to be serviced
SessionInit ==
    [ want    |-> {},    \* the sections the session asks for
      alloc   |-> {},    \* the sections handed to some retrieval so far
      got     |-> {},    \* the sections answered so far
      calls   |-> 0,     \* calls of ServiceFilter for this session
      spawned |-> 0,     \* Multiplex goroutines spawned for it
      batch   |-> 0,     \* the arguments they were spawned with
      wait    |-> Nil,
      mux     |-> Nil ]

BloomInit ==
    [ imported |-> 0,                           \* blocks imported so far
      sections |-> 0,                           \* sections the indexer has produced
      session  |-> [s \in Sessions |-> SessionInit],
      pool     |-> [w \in Pool |-> NoRequest] ] \* what each service worker serves

\* the lifecycle fields of a node New returned: nothing attached, started or stopped
NodeInit ==
    [ lesServer     |-> FALSE,   \* s.lesServer # nil
      lesIndexer    |-> FALSE,   \* the extension was handed s.bloomIndexer
      bloomHandlers |-> 0,       \* sets of bloom workers startBloomHandlers spawned
      netRPC        |-> FALSE,   \* s.netRPCService is set
      pmStarts      |-> 0,       \* calls of protocolManager.Start
      pmBudget      |-> 0,       \* the maxPeers of the last one
      lesStarts     |-> 0,       \* calls of lesServer.Start
      stopped       |-> {},      \* the subsystems stopped or closed so far
      stopCalls     |-> 0,       \* calls of Stop so far
      closed        |-> FALSE,   \* shutdownChan is closed
      panicked      |-> FALSE,   \* close of a closed channel: the process is gone
      bloom         |-> BloomInit ]  \* the chain, bloomIndexer and bloomRequests

\* the mining state of a node New returned, for the given accounts
MiningInit(etherbase, wallets) ==
    [ etherbase  |-> etherbase,  \* s.etherbase
      wallets    |-> wallets,    \* the account manager's wallets, each a list of accounts
      acceptTxs  |-> FALSE,      \* protocolManager.acceptTxs
      authorized |-> ZeroAddr,   \* the signer the Clique engine was authorised with
      isMining   |-> FALSE,      \* miner.Mining()
      coinbase   |-> ZeroAddr,   \* the miner's etherbase
      pending    |-> {},         \* go s.miner.Start(eb) launched and not run yet
      launchedLocal |-> FALSE,   \* some StartMining(true) has launched the miner
      lock       |-> 0 ]         \* s.lock: the caller that holds it for writing, 0: none

\* a caller that runs no operation
Idle ==
    [ pc    |-> "idle",
      op    |-> Nil,        \* the operation the caller is in
      i     |-> 0,          \* the statement it is at, or the operation's numeric argument
      trace |-> <<>>,       \* the calls the operation has made so far, in order
      ret   |-> Nil,        \* the error it returned (Nil: none)
      flag  |-> FALSE,      \* Stop: an extension was attached when Stop was entered
      failed |-> FALSE,     \* Stop: some subsystem reported a failure on its way down
      eb    |-> ZeroAddr,   \* the local variable etherbase / eb
      eb0   |-> ZeroAddr,   \* Etherbase, StartMining: s.etherbase as line 305 read it
      local |-> FALSE ]     \* StartMining's argument

\* the callers: two, so that any two operations can run concurrently
Threads == {1, 2}

\* s.config.LightServ, s.config.LightPeers
LightServ == input.LightServ
LightPeers == input.LightPeers

(***************************************************************************)
(* AddLesServer, lines 97-100                                              *)
(***************************************************************************)
AddLesServer(t) ==
    /\ thr[t].pc = "idle"
    /\ ~node.panicked
    /\ node' = [node EXCEPT !.lesServer = TRUE, !.lesIndexer = TRUE]
    /\ thr' = [thr EXCEPT ![t] = [Idle EXCEPT !.pc = "AddLesServerRet", !.op = "AddLesServer"]]
    /\ UNCHANGED <<input, output, mining>>

(***************************************************************************)
(* Start, lines 386-407                                                    *)
(***************************************************************************)

(***************************************************************************)
(* Protocols, lines 377-382                                                *)
(***************************************************************************)
\* s.protocolManager.SubProtocols and s.lesServer.Protocols()
SubProtocols == << "ess/63", "ess/62" >>
LesProtocols == << "les/2", "les/1" >>

\* faulty variant: the extension's protocols are put before the protocol manager's
Protocols_LesFirst(t) ==
    /\ thr[t].pc = "idle"
    /\ ~node.panicked
    /\ thr' = [thr EXCEPT ![t] =
                  [Idle EXCEPT !.pc = "ProtocolsRet", !.op = "Protocols",
                               !.trace = IF ~node.lesServer
                                         THEN SubProtocols
                                         ELSE LesProtocols \o SubProtocols]]
    /\ UNCHANGED <<input, output, node, mining>>

\* Protocols(): the caller's trace holds the list returned
Protocols(t) ==
    /\ thr[t].pc = "idle"
    /\ ~node.panicked
    /\ thr' = [thr EXCEPT ![t] =
                  [Idle EXCEPT !.pc = "ProtocolsRet", !.op = "Protocols",
                               !.trace = IF ~node.lesServer
                                         THEN SubProtocols
                                         ELSE SubProtocols \o LesProtocols]]
    /\ UNCHANGED <<input, output, node, mining>>


(***************************************************************************)
(* ServiceFilter, les/api_backend.go lines 198-202                         *)
(***************************************************************************)
\* faulty variant: the loop runs once more than the thread count
ServiceFilter_OneMore(t, s, range) ==
    /\ thr[t].pc = "idle"
    /\ ~node.panicked
    /\ node.bloom.session[s].calls < MaxFilterCalls
    /\ node' = [node EXCEPT !.bloom.session[s] =
                  [@ EXCEPT !.want = IF @ = {} THEN range ELSE @,
                            !.calls = @ + 1,
                            !.spawned = @ + bloomFilterThreads + 1,
                            !.batch = bloomRetrievalBatch,
                            !.wait = "bloomRetrievalWait",
                            !.mux = "ess.bloomRequests"]]
    /\ thr' = [thr EXCEPT ![t] = [Idle EXCEPT !.pc = "ServiceFilterRet",
                                              !.op = "ServiceFilter"]]
    /\ UNCHANGED <<input, output, mining>>

\* ServiceFilter(ctx, session) for a session over the given range of sections: the
\* loop spawns the Multiplex goroutines and the call returns
ServiceFilter(t, s, range) ==
    /\ thr[t].pc = "idle"
    /\ ~node.panicked
    /\ node.bloom.session[s].calls < MaxFilterCalls
    /\ node' = [node EXCEPT !.bloom.session[s] =
                  [@ EXCEPT !.want = IF @ = {} THEN range ELSE @,
                            !.calls = @ + 1,
                            !.spawned = @ + bloomFilterThreads,
                            !.batch = bloomRetrievalBatch,
                            !.wait = "bloomRetrievalWait",
                            !.mux = "ess.bloomRequests"]]
    /\ thr' = [thr EXCEPT ![t] = [Idle EXCEPT !.pc = "ServiceFilterRet",
                                              !.op = "ServiceFilter"]]
    /\ UNCHANGED <<input, output, mining>>

(***************************************************************************)
(* The chain, the bloom indexer and the workers, as sections 4.3 and 4.4   *)
(* of the specification describe them.                                     *)
(***************************************************************************)
\* the chain imports its next block
ImportBlock ==
    /\ ~node.panicked
    /\ node.bloom.imported < MaxBlocks
    /\ node' = [node EXCEPT !.bloom.imported = @ + 1]
    /\ UNCHANGED <<input, output, mining, thr>>

\* faulty variant: a section is produced as soon as its first block is imported
BloomIndex_Early ==
    /\ ~node.panicked
    /\ node.bloom.sections * BloomBitsBlocks < node.bloom.imported
    /\ node' = [node EXCEPT !.bloom.sections = @ + 1]
    /\ UNCHANGED <<input, output, mining, thr>>

\* the indexer produces its next section once the section's range is complete
BloomIndex ==
    /\ ~node.panicked
    /\ (node.bloom.sections + 1) * BloomBitsBlocks <= node.bloom.imported
    /\ node' = [node EXCEPT !.bloom.sections = @ + 1]
    /\ UNCHANGED <<input, output, mining, thr>>

\* the k lowest elements of a set of numbers
FirstK(S, k) == { x \in S : Cardinality({ y \in S : y < x }) < k }

\* the retrievals of session s that service workers hold
InFlight(s) == { w \in Pool : node.bloom.pool[w].s = s }

\* a Multiplex goroutine of session s takes the next batch of sections nobody has
\* taken yet and hands the retrieval to service worker w over bloomRequests
Multiplex(s, w) ==
    /\ ~node.panicked
    /\ node.bloomHandlers > 0
    /\ node.bloom.pool[w] = NoRequest
    /\ LET ses == node.bloom.session[s]
           secs == FirstK(ses.want \ ses.alloc, ses.batch)
       IN  /\ Cardinality(InFlight(s)) < ses.spawned
           /\ secs # {}
           /\ node' = [node EXCEPT !.bloom.session[s].alloc = @ \cup secs,
                                   !.bloom.pool[w] = [s |-> s, secs |-> secs]]
    /\ UNCHANGED <<input, output, mining, thr>>

\* service worker w answers the retrieval it holds once every section of it is there
BloomHandler(w) ==
    /\ ~node.panicked
    /\ node.bloom.pool[w] # NoRequest
    /\ LET req == node.bloom.pool[w]
       IN  /\ \A k \in req.secs : k < node.bloom.sections
           /\ node' = [node EXCEPT !.bloom.session[req.s].got = @ \cup req.secs,
                                   !.bloom.pool[w] = NoRequest]
    /\ UNCHANGED <<input, output, mining, thr>>

\* faulty variant: the light peer count is rejected only when it exceeds the total
StartPlan_Off(lightServ, lightPeers, maxPeers, les) ==
    LET pre == <<"startBloomHandlers", "NewPublicNetAPI">>
        budget == IF lightServ > 0 THEN maxPeers - lightPeers ELSE maxPeers
    IN  IF lightServ > 0 /\ lightPeers > maxPeers
        THEN [err |-> TRUE, calls |-> pre, budget |-> 0]
        ELSE [err |-> FALSE,
              calls |-> pre \o <<"protocolManager.Start">>
                            \o (IF les THEN <<"lesServer.Start">> ELSE <<>>),
              budget |-> budget]


\* faulty variant: the light peers are subtracted whether light serving is on or not
StartPlan_AlwaysSubtract(lightServ, lightPeers, maxPeers, les) ==
    LET pre == <<"startBloomHandlers", "NewPublicNetAPI">>
        budget == maxPeers - lightPeers
    IN  IF lightServ > 0 /\ lightPeers >= maxPeers
        THEN [err |-> TRUE, calls |-> pre, budget |-> 0]
        ELSE [err |-> FALSE,
              calls |-> pre \o <<"protocolManager.Start">>
                            \o (IF les THEN <<"lesServer.Start">> ELSE <<>>),
              budget |-> budget]


\* faulty variant: the peer configuration is validated before anything is started
StartPlan_ValidateFirst(lightServ, lightPeers, maxPeers, les) ==
    LET pre == <<"startBloomHandlers", "NewPublicNetAPI">>
        budget == IF lightServ > 0 THEN maxPeers - lightPeers ELSE maxPeers
    IN  IF lightServ > 0 /\ lightPeers >= maxPeers
        THEN [err |-> TRUE, calls |-> <<>>, budget |-> 0]
        ELSE [err |-> FALSE,
              calls |-> pre \o <<"protocolManager.Start">>
                            \o (IF les THEN <<"lesServer.Start">> ELSE <<>>),
              budget |-> budget]

\* what Start does for a server with the given MaxPeers: its calls in order, the
\* peer budget handed to the protocol manager, and whether it returns an error
StartPlan(lightServ, lightPeers, maxPeers, les) ==
    LET pre == <<"startBloomHandlers", "NewPublicNetAPI">>
        budget == IF lightServ > 0 THEN maxPeers - lightPeers ELSE maxPeers
    IN  IF lightServ > 0 /\ lightPeers >= maxPeers
        THEN [err |-> TRUE, calls |-> pre, budget |-> 0]
        ELSE [err |-> FALSE,
              calls |-> pre \o <<"protocolManager.Start">>
                            \o (IF les THEN <<"lesServer.Start">> ELSE <<>>),
              budget |-> budget]

\* the calls of a sequence, as a set
Made(calls) == {calls[k] : k \in 1..Len(calls)}

Start(t, maxPeers) ==
    /\ thr[t].pc = "idle"
    /\ ~node.panicked
    /\ node.bloomHandlers < MaxStarts
    /\ LET plan == StartPlan(LightServ, LightPeers, maxPeers, node.lesServer)
           made == Made(plan.calls)
       IN  /\ node' = [node EXCEPT
                  !.bloomHandlers = @ + 1,
                  !.netRPC = TRUE,
                  !.pmStarts = IF "protocolManager.Start" \in made THEN @ + 1 ELSE @,
                  !.pmBudget = IF "protocolManager.Start" \in made THEN plan.budget ELSE @,
                  !.lesStarts = IF "lesServer.Start" \in made THEN @ + 1 ELSE @]
           /\ thr' = [thr EXCEPT ![t] =
                  [Idle EXCEPT !.pc = "StartRet", !.op = "Start", !.trace = plan.calls, !.i = maxPeers,
                               !.ret = IF plan.err THEN "invalid peer config" ELSE Nil]]
    /\ UNCHANGED <<input, output, mining>>

(***************************************************************************)
(* Stop, lines 411-426                                                     *)
(***************************************************************************)
\* Stop is entered
StopCall(t) ==
    /\ thr[t].pc = "idle"
    /\ ~node.panicked
    /\ node.stopCalls < MaxStops
    /\ node' = [node EXCEPT !.stopCalls = @ + 1]
    /\ thr' = [thr EXCEPT ![t] = [Idle EXCEPT !.pc = "Stop", !.op = "Stop", !.i = 1,
                                              !.flag = node.lesServer]]
    /\ UNCHANGED <<input, output, mining>>

\* faulty variant: Stop gives up with an error once a subsystem fails to stop
StopAdvance_Abort(t, made, failed) ==
    IF made /\ failed
    THEN [thr[t] EXCEPT !.trace = Append(@, StopCalls[thr[t].i]), !.failed = TRUE,
                        !.pc = "StopRet", !.ret = "stop failed"]
    ELSE [thr[t] EXCEPT !.i = @ + 1,
                        !.trace = IF made THEN Append(@, StopCalls[thr[t].i]) ELSE @,
                        !.pc = IF thr[t].i = Len(StopCalls) THEN "StopRet" ELSE @]

\* the caller is past its i-th statement (made: the call was made; failed: the
\* subsystem reported a failure, which Stop does not look at) and goes on to the
\* next, or returns nil after the last
StopAdvance(t, made, failed) ==
    [thr[t] EXCEPT !.i = @ + 1,
                   !.trace = IF made THEN Append(@, StopCalls[thr[t].i]) ELSE @,
                   !.failed = @ \/ (made /\ failed),
                   !.pc = IF thr[t].i = Len(StopCalls) THEN "StopRet" ELSE @]

\* one statement of Stop; failed: the subsystem called reports a failure
StopStep(t, failed) ==
    /\ thr[t].pc = "Stop"
    /\ ~node.panicked
    /\ LET call == StopCalls[thr[t].i]
       IN  CASE call = "lesServer.Stop" ->
                  /\ node' = IF node.lesServer
                             THEN [node EXCEPT !.stopped = @ \cup {call}]
                             ELSE node
                  /\ thr' = [thr EXCEPT ![t] = StopAdvance(t, node.lesServer, failed)]
                  /\ UNCHANGED mining
             [] call = "miner.Stop" ->
                  /\ node' = [node EXCEPT !.stopped = @ \cup {call}]
                  /\ mining' = [mining EXCEPT !.isMining = FALSE]
                  /\ thr' = [thr EXCEPT ![t] = StopAdvance(t, TRUE, failed)]
             [] call = "close(shutdownChan)" ->
                  /\ node' = IF node.closed
                             THEN [node EXCEPT !.panicked = TRUE]
                             ELSE [node EXCEPT !.closed = TRUE]
                  /\ thr' = [thr EXCEPT ![t] =
                                IF node.closed THEN [thr[t] EXCEPT !.pc = "panic"]
                                               ELSE StopAdvance(t, TRUE, FALSE)]
                  /\ UNCHANGED mining
             [] OTHER ->
                  /\ node' = [node EXCEPT !.stopped = @ \cup {call}]
                  /\ thr' = [thr EXCEPT ![t] = StopAdvance(t, TRUE, failed)]
                  /\ UNCHANGED mining
    /\ UNCHANGED <<input, output>>

(***************************************************************************)
(* Etherbase, lines 303-324                                                *)
(***************************************************************************)
\* the wallets the account manager can hold: none; an empty first wallet before a
\* wallet with an account; one wallet with two accounts; two wallets
WalletConfigs ==
    { <<>>,
      << <<>>, <<"0xA">> >>,
      << <<"0xA", "0xB">> >>,
      << <<"0xB">>, <<"0xA">> >> }

\* faulty variant: the first account of the first wallet that has one
FirstAccount_AnyWallet(wallets) ==
    LET full == {k \in 1..Len(wallets) : Len(wallets[k]) > 0}
    IN  IF full = {} THEN ZeroAddr
        ELSE wallets[CHOOSE k \in full : \A j \in full : k <= j][1]

\* lines 311-313: accounts[0] of wallets[0], or the zero address when there is none
FirstAccount(wallets) ==
    IF Len(wallets) > 0 /\ Len(wallets[1]) > 0 THEN wallets[1][1] ELSE ZeroAddr

\* Etherbase is entered
EtherbaseCall(t) ==
    /\ thr[t].pc = "idle"
    /\ ~node.panicked
    /\ thr' = [thr EXCEPT ![t] = [Idle EXCEPT !.pc = "Etherbase.read", !.op = "Etherbase"]]
    /\ UNCHANGED <<input, output, node, mining>>

\* lines 304-306: the stored etherbase is read under the read lock, which no writer
\* may hold meanwhile
EtherbaseRead(t) ==
    /\ thr[t].pc = "Etherbase.read"
    /\ ~node.panicked
    /\ mining.lock = 0
    /\ thr' = [thr EXCEPT ![t].eb = mining.etherbase, ![t].eb0 = mining.etherbase,
                          ![t].pc = "Etherbase.resolve"]
    /\ UNCHANGED <<input, output, node, mining>>

\* where Etherbase's caller goes on with the result (eb, err)
AfterEtherbase(t, eb, err) ==
    IF thr[t].op = "Etherbase"
    THEN [thr[t] EXCEPT !.eb = eb, !.pc = "EtherbaseRet",
                        !.ret = IF err THEN "etherbase must be explicitly specified"
                                       ELSE Nil]
    ELSE IF err
    THEN [thr[t] EXCEPT !.eb = eb, !.pc = "StartMiningRet", !.ret = "etherbase missing"]
    ELSE [thr[t] EXCEPT !.eb = eb, !.pc = "StartMining", !.i = 1]


\* faulty variant: the automatically chosen account is returned but not stored
EtherbaseResolve_NoStore(t) ==
    /\ thr[t].pc = "Etherbase.resolve"
    /\ ~node.panicked
    /\ LET acct == FirstAccount(mining.wallets)
       IN  IF thr[t].eb # ZeroAddr
           THEN thr' = [thr EXCEPT ![t] = AfterEtherbase(t, thr[t].eb, FALSE)]
           ELSE IF acct # ZeroAddr
           THEN thr' = [thr EXCEPT ![t] = AfterEtherbase(t, acct, FALSE)]
           ELSE thr' = [thr EXCEPT ![t] = AfterEtherbase(t, ZeroAddr, TRUE)]
    /\ UNCHANGED <<input, output, node, mining>>

\* lines 308-323: the value read is returned if it is not zero; otherwise the first
\* account of the first wallet is stored under the write lock and returned; otherwise
\* an error
EtherbaseResolve(t) ==
    /\ thr[t].pc = "Etherbase.resolve"
    /\ ~node.panicked
    /\ LET acct == FirstAccount(mining.wallets)
       IN  IF thr[t].eb # ZeroAddr
           THEN /\ thr' = [thr EXCEPT ![t] = AfterEtherbase(t, thr[t].eb, FALSE)]
                /\ UNCHANGED mining
           ELSE IF acct # ZeroAddr
           THEN /\ mining.lock = 0
                /\ mining' = [mining EXCEPT !.etherbase = acct]
                /\ thr' = [thr EXCEPT ![t] = AfterEtherbase(t, acct, FALSE)]
           ELSE /\ thr' = [thr EXCEPT ![t] = AfterEtherbase(t, ZeroAddr, TRUE)]
                /\ UNCHANGED mining
    /\ UNCHANGED <<input, output, node>>

(***************************************************************************)
(* StartMining, lines 335-358                                              *)
(***************************************************************************)

(***************************************************************************)
(* SetEtherbase, lines 327-333                                             *)
(***************************************************************************)
\* faulty variant: the miner is told while the lock is still held
SetEtherbaseCalls_MinerUnderLock ==
    << "lock.Lock", "s.etherbase = etherbase", "miner.SetEtherbase", "lock.Unlock" >>

\* the statements of SetEtherbase, in the order of the source
SetEtherbaseCalls ==
    << "lock.Lock", "s.etherbase = etherbase", "lock.Unlock", "miner.SetEtherbase" >>

\* SetEtherbase(etherbase) is entered
SetEtherbaseCall(t, etherbase) ==
    /\ thr[t].pc = "idle"
    /\ ~node.panicked
    /\ thr' = [thr EXCEPT ![t] = [Idle EXCEPT !.pc = "SetEtherbase", !.op = "SetEtherbase",
                                              !.i = 1, !.eb = etherbase]]
    /\ UNCHANGED <<input, output, node, mining>>

\* one statement of SetEtherbase; Lock waits until no caller holds the lock
SetEtherbaseStep(t) ==
    /\ thr[t].pc = "SetEtherbase"
    /\ ~node.panicked
    /\ LET call == SetEtherbaseCalls[thr[t].i]
       IN  /\ CASE call = "lock.Lock" ->
                     /\ mining.lock = 0
                     /\ mining' = [mining EXCEPT !.lock = t]
                [] call = "s.etherbase = etherbase" ->
                     mining' = [mining EXCEPT !.etherbase = thr[t].eb]
                [] call = "lock.Unlock" ->
                     mining' = [mining EXCEPT !.lock = 0]
                [] call = "miner.SetEtherbase" ->
                     mining' = [mining EXCEPT !.coinbase = thr[t].eb]
           /\ thr' = [thr EXCEPT ![t].i = @ + 1,
                                 ![t].trace = Append(@, call),
                                 ![t].pc = IF thr[t].i = Len(SetEtherbaseCalls)
                                           THEN "SetEtherbaseRet" ELSE @]
    /\ UNCHANGED <<input, output, node>>

\* faulty variant: the flag is stored before the signer is looked up
StartMiningCalls_FlagFirst ==
    << "atomic.StoreUint32(acceptTxs)", "clique.Authorize", "go miner.Start" >>

\* faulty variant: the miner goroutine is launched before the flag is stored
StartMiningCalls_GoFirst ==
    << "clique.Authorize", "go miner.Start", "atomic.StoreUint32(acceptTxs)" >>

\* the statements of StartMining after the etherbase is resolved, lines 341-356
StartMiningCalls ==
    << "clique.Authorize", "atomic.StoreUint32(acceptTxs)", "go miner.Start" >>

\* s.engine.(*clique.Clique)
IsClique == output.res.engine.kind = "clique"

\* accountManager.Find: a wallet that holds the account
FindWallet(wallets, addr) ==
    \E k \in 1..Len(wallets) : \E j \in 1..Len(wallets[k]) : wallets[k][j] = addr

\* StartMining(local) is entered: it calls Etherbase first
StartMiningCall(t, local) ==
    /\ thr[t].pc = "idle"
    /\ ~node.panicked
    /\ thr' = [thr EXCEPT ![t] = [Idle EXCEPT !.pc = "Etherbase.read",
                                              !.op = "StartMining", !.local = local]]
    /\ UNCHANGED <<input, output, node, mining>>

\* the caller has passed its i-th statement
StartMiningAdvance(t, made) ==
    [thr[t] EXCEPT !.i = @ + 1,
                   !.trace = IF made THEN Append(@, StartMiningCalls[thr[t].i]) ELSE @,
                   !.pc = IF thr[t].i = Len(StartMiningCalls) THEN "StartMiningRet" ELSE @]


\* faulty variant: the engine is authorised before the signer has been looked up
StartMiningStep_AuthorizeFirst(t, findErr) ==
    /\ thr[t].pc = "StartMining"
    /\ ~node.panicked
    /\ LET call == StartMiningCalls[thr[t].i]
           eb == thr[t].eb
       IN  CASE call = "clique.Authorize" ->
                  IF ~IsClique
                  THEN /\ thr' = [thr EXCEPT ![t] = StartMiningAdvance(t, FALSE)]
                       /\ UNCHANGED mining
                  ELSE /\ mining' = [mining EXCEPT !.authorized = eb]
                       /\ thr' = IF ~FindWallet(mining.wallets, eb) \/ findErr
                                 THEN [thr EXCEPT ![t].pc = "StartMiningRet",
                                                  ![t].ret = "signer missing"]
                                 ELSE [thr EXCEPT ![t] = StartMiningAdvance(t, TRUE)]
             [] call = "atomic.StoreUint32(acceptTxs)" ->
                  /\ mining' = IF thr[t].local
                               THEN [mining EXCEPT !.acceptTxs = TRUE]
                               ELSE mining
                  /\ thr' = [thr EXCEPT ![t] = StartMiningAdvance(t, thr[t].local)]
             [] call = "go miner.Start" ->
                  /\ mining' = [mining EXCEPT
                                  !.pending = @ \cup {eb},
                                  !.launchedLocal = @ \/ thr[t].local]
                  /\ thr' = [thr EXCEPT ![t] = StartMiningAdvance(t, TRUE)]
    /\ UNCHANGED <<input, output, node>>

\* one statement of StartMining; findErr: accountManager.Find returns an error
StartMiningStep(t, findErr) ==
    /\ thr[t].pc = "StartMining"
    /\ ~node.panicked
    /\ LET call == StartMiningCalls[thr[t].i]
           eb == thr[t].eb
       IN  CASE call = "clique.Authorize" ->
                  IF ~IsClique
                  THEN /\ thr' = [thr EXCEPT ![t] = StartMiningAdvance(t, FALSE)]
                       /\ UNCHANGED mining
                  ELSE IF ~FindWallet(mining.wallets, eb) \/ findErr
                  THEN /\ thr' = [thr EXCEPT ![t].pc = "StartMiningRet",
                                             ![t].ret = "signer missing"]
                       /\ UNCHANGED mining
                  ELSE /\ mining' = [mining EXCEPT !.authorized = eb]
                       /\ thr' = [thr EXCEPT ![t] = StartMiningAdvance(t, TRUE)]
             [] call = "atomic.StoreUint32(acceptTxs)" ->
                  /\ mining' = IF thr[t].local
                               THEN [mining EXCEPT !.acceptTxs = TRUE]
                               ELSE mining
                  /\ thr' = [thr EXCEPT ![t] = StartMiningAdvance(t, thr[t].local)]
             [] call = "go miner.Start" ->
                  /\ mining' = [mining EXCEPT
                                  !.pending = @ \cup {eb},
                                  !.launchedLocal = @ \/ thr[t].local]
                  /\ thr' = [thr EXCEPT ![t] = StartMiningAdvance(t, TRUE)]
    /\ UNCHANGED <<input, output, node>>


\* faulty variant: the goroutine ends without having started the miner
MinerStart_Lost(eb, more) ==
    /\ eb \in mining.pending
    /\ ~node.panicked
    /\ mining' = [mining EXCEPT !.pending = IF more THEN @ ELSE @ \ {eb}]
    /\ UNCHANGED <<input, output, node, thr>>

\* the goroutine of line 356 runs miner.Start(eb); further goroutines launched with
\* the same address may remain
MinerStart(eb, more) ==
    /\ eb \in mining.pending
    /\ ~node.panicked
    /\ mining' = [mining EXCEPT !.isMining = TRUE, !.coinbase = eb,
                                !.pending = IF more THEN @ ELSE @ \ {eb}]
    /\ UNCHANGED <<input, output, node, thr>>


\* faulty variant: stopping the miner also clears the accept-transactions flag
StopMining_ClearsFlag(t) ==
    /\ thr[t].pc = "idle"
    /\ ~node.panicked
    /\ mining' = [mining EXCEPT !.isMining = FALSE, !.acceptTxs = FALSE]
    /\ thr' = [thr EXCEPT ![t] = [Idle EXCEPT !.pc = "StopMiningRet", !.op = "StopMining"]]
    /\ UNCHANGED <<input, output, node>>

\* StopMining, line 360
StopMining(t) ==
    /\ thr[t].pc = "idle"
    /\ ~node.panicked
    /\ mining' = [mining EXCEPT !.isMining = FALSE]
    /\ thr' = [thr EXCEPT ![t] = [Idle EXCEPT !.pc = "StopMiningRet", !.op = "StopMining"]]
    /\ UNCHANGED <<input, output, node>>

\* the user adds or removes wallets and accounts
ChangeWallets(w) ==
    /\ w # mining.wallets
    /\ ~node.panicked
    /\ mining' = [mining EXCEPT !.wallets = w]
    /\ UNCHANGED <<input, output, node, thr>>

(***************************************************************************)
(* The operation returns to its caller.                                    *)
(***************************************************************************)
Return(t) ==
    /\ thr[t].pc \in {"AddLesServerRet", "StartRet", "StopRet", "EtherbaseRet",
                     "StartMiningRet", "StopMiningRet", "SetEtherbaseRet", "ProtocolsRet",
                     "ServiceFilterRet"}
    /\ ~node.panicked
    /\ thr' = [thr EXCEPT ![t] = Idle]
    /\ UNCHANGED <<input, output, node, mining>>

(***************************************************************************)
(* The service lifecycle: a constructed node, its callers running          *)
(* AddLesServer, Start and Stop.                                           *)
(***************************************************************************)
\* the configurations the lifecycle is followed for: New succeeds on each
LifecycleInputs ==
    { [PlainInput EXCEPT !.LightServ = ls, !.LightPeers = lp] :
        ls \in {0, 50}, lp \in 0..MaxPeerCount }

Init ==
    /\ input \in LifecycleInputs
    /\ output = [op |-> "New", res |-> New(input)]
    /\ node = NodeInit
    /\ mining = MiningInit(output.res.etherbase, <<>>)
    /\ thr = [t \in Threads |-> Idle]

Next ==
    \E t \in Threads :
        \/ AddLesServer(t)
        \/ \E maxPeers \in 0..(MaxPeerCount + 1) : Start(t, maxPeers)
        \/ StopCall(t)
        \/ \E failed \in BOOLEAN : StopStep(t, failed)
        \/ Return(t)

Spec == Init /\ [][Next]_vars

(***************************************************************************)
(* One caller running every operation in turn, the goroutines StartMining  *)
(* launches, and the user changing the wallets.                            *)
(***************************************************************************)
\* the configurations followed: proof of work or Clique, an etherbase configured or not
SeqInputs ==
    { [PlainInput EXCEPT !.Clique = c, !.Etherbase = e, !.LightServ = 50, !.LightPeers = 1] :
        c \in {Nil, "clique1"}, e \in {ZeroAddr, "0xB"} }

InitSeq ==
    /\ input \in SeqInputs
    /\ output = [op |-> "New", res |-> New(input)]
    /\ node = NodeInit
    /\ \E w \in WalletConfigs : mining = MiningInit(output.res.etherbase, w)
    /\ thr = [t \in Threads |-> Idle]

\* Start is given a server it rejects and one it accepts
NextSeq ==
    \/ AddLesServer(1)
    \/ Protocols(1)
    \/ \E maxPeers \in {LightPeers, LightPeers + 1} : Start(1, maxPeers)
    \/ StopCall(1)
    \/ \E failed \in BOOLEAN : StopStep(1, failed)
    \/ EtherbaseCall(1)
    \/ EtherbaseRead(1)
    \/ EtherbaseResolve(1)
    \/ \E local \in BOOLEAN : StartMiningCall(1, local)
    \/ \E findErr \in BOOLEAN : StartMiningStep(1, findErr)
    \/ \E eb \in Addrs, more \in BOOLEAN : MinerStart(eb, more)
    \/ StopMining(1)
    \/ \E w \in WalletConfigs : ChangeWallets(w)
    \/ Return(1)

SpecSeq == InitSeq /\ [][NextSeq]_vars

(***************************************************************************)
(* Construction: New and CreateConsensusEngine applied to every input.     *)
(***************************************************************************)

(***************************************************************************)
(* The etherbase under concurrency: two callers running SetEtherbase,      *)
(* Etherbase and StartMining, and the miner's goroutine.                   *)
(***************************************************************************)
EbInputs ==
    { [PlainInput EXCEPT !.Etherbase = e] : e \in {ZeroAddr, "0xB"} }

InitEb ==
    /\ input \in EbInputs
    /\ output = [op |-> "New", res |-> New(input)]
    /\ node = NodeInit
    /\ \E w \in {<<>>, <<<<"0xA">>>>} : mining = MiningInit(output.res.etherbase, w)
    /\ thr = [t \in Threads |-> Idle]

NextEb ==
    \/ \E t \in Threads :
        \/ \E a \in Addrs : SetEtherbaseCall(t, a)
        \/ SetEtherbaseStep(t)
        \/ EtherbaseCall(t)
        \/ EtherbaseRead(t)
        \/ EtherbaseResolve(t)
        \/ StartMiningCall(t, TRUE)
        \/ StartMiningStep(t, FALSE)
        \/ Return(t)
    \/ \E eb \in Addrs, more \in BOOLEAN : MinerStart(eb, more)

SpecEb == InitEb /\ [][NextEb]_vars


(***************************************************************************)
(* Mining that nobody stops: one caller running Etherbase and StartMining, *)
(* neither StopMining nor Stop, and the miner's goroutine.  The Go         *)
(* scheduler runs every runnable goroutine eventually, hence the weak      *)
(* fairness of the goroutine's step.                                       *)
(***************************************************************************)
NextLive ==
    \/ EtherbaseCall(1)
    \/ EtherbaseRead(1)
    \/ EtherbaseResolve(1)
    \/ \E local \in BOOLEAN : StartMiningCall(1, local)
    \/ \E findErr \in BOOLEAN : StartMiningStep(1, findErr)
    \/ \E eb \in Addrs, more \in BOOLEAN : MinerStart(eb, more)
    \/ \E w \in WalletConfigs : ChangeWallets(w)
    \/ Return(1)

SpecLive ==
    /\ InitSeq
    /\ [][NextLive]_vars
    /\ WF_vars(\E eb \in Addrs, more \in BOOLEAN : MinerStart(eb, more))


(***************************************************************************)
(* Bloom retrieval on a node nobody stops: Start spawns the service        *)
(* workers, ServiceFilter the sessions' goroutines.  Every goroutine that  *)
(* can run does so eventually and the chain keeps importing, hence the     *)
(* weak fairness of their steps taken together.                            *)
(***************************************************************************)
InitBloom ==
    /\ input = PlainInput
    /\ output = [op |-> "New", res |-> New(input)]
    /\ node = NodeInit
    /\ mining = MiningInit(output.res.etherbase, <<>>)
    /\ thr = [t \in Threads |-> Idle]

BloomSteps ==
    \/ ImportBlock
    \/ BloomIndex
    \/ \E s \in Sessions, w \in Pool : Multiplex(s, w)
    \/ \E w \in Pool : BloomHandler(w)

NextBloom ==
    \/ Start(1, MaxPeerCount)
    \/ \E s \in Sessions, range \in Ranges : ServiceFilter(1, s, range)
    \/ Return(1)
    \/ BloomSteps

SpecBloom ==
    /\ InitBloom
    /\ [][NextBloom]_vars
    /\ WF_vars(BloomSteps)


(***************************************************************************)
(* makeExtraData on every configured payload and every synthesized default.*)
(***************************************************************************)
InitExtra ==
    /\ input \in [ExtraData : Payloads, default : Payloads \ {<<>>}]
    /\ output = [op |-> "none", res |-> <<>>]
    /\ node = NodeInit
    /\ mining = MiningInit(ZeroAddr, <<>>)
    /\ thr = [t \in Threads |-> Idle]

CallMakeExtraData ==
    /\ output.op = "none"
    /\ output' = [op |-> "makeExtraData",
                  res |-> makeExtraData(input.ExtraData, input.default)]
    /\ UNCHANGED <<input, node, mining, thr>>

NextExtra == CallMakeExtraData

SpecExtra == InitExtra /\ [][NextExtra]_vars


(***************************************************************************)
(* Enodes, mobile/discover.go lines 64-104.  In this specification node    *)
(* holds the collection and output the last call with the one before it.   *)
(***************************************************************************)
\* *ESSNode arguments: two wrappers of distinct nodes, a wrapper of a nil node (what
\* Get returns for a slot never set) and the nil pointer
ESSNodes == {"n1", "n2", Nil}
NilPtr == "nil pointer"
\* the indices tried: every valid one, -1 and two beyond the end
Indices == (0 - 1)..(MaxEnodes + 1)

\* a call as output records it
Call(op, index, arg, err, res) ==
    [op |-> op, index |-> index, arg |-> arg, err |-> err, res |-> res]
NoCall == Call("none", 0, Nil, Nil, Nil)

\* NewEnodes(size), lines 67-72
InitEnodes ==
    /\ input \in 0..MaxNewSize
    /\ node = [ nodes    |-> [k \in 1..input |-> Nil],   \* e.nodes
                appends  |-> 0,                            \* calls of Append that returned
                panicked |-> FALSE ]                       \* a nil *ESSNode was dereferenced
    /\ output = [last |-> NoCall, prev |-> NoCall]
    /\ mining = MiningInit(ZeroAddr, <<>>)
    /\ thr = [t \in Threads |-> Idle]

\* the call is recorded as the last one
Called(c) == [last |-> c, prev |-> output.last]

\* Size, lines 80-82
EnodesSize ==
    /\ ~node.panicked
    /\ output' = Called(Call("Size", 0, Nil, Nil, Len(node.nodes)))
    /\ UNCHANGED <<input, node, mining, thr>>

\* Get, lines 85-90; slot index of the source is position index + 1 here
EnodesGet(index) ==
    /\ ~node.panicked
    /\ output' = IF index < 0 \/ index >= Len(node.nodes)
                 THEN Called(Call("Get", index, Nil, "index out of bounds", Nil))
                 ELSE Called(Call("Get", index, Nil, Nil, node.nodes[index + 1]))
    /\ UNCHANGED <<input, node, mining, thr>>

\* faulty variant: the upper bound check lets the index Size through to the store,
\* which then writes the last slot
EnodesSet_OffByOne(index, essnode) ==
    /\ ~node.panicked
    /\ IF index < 0 \/ index > Len(node.nodes) \/ Len(node.nodes) = 0
       THEN /\ output' = Called(Call("Set", index, essnode, "index out of bounds", Nil))
            /\ UNCHANGED node
       ELSE IF essnode = NilPtr
       THEN /\ node' = [node EXCEPT !.panicked = TRUE]
            /\ UNCHANGED output
       ELSE /\ node' = [node EXCEPT
                          !.nodes[IF index = Len(node.nodes) THEN index ELSE index + 1]
                              = essnode]
            /\ output' = Called(Call("Set", index, essnode, Nil, Nil))
    /\ UNCHANGED <<input, mining, thr>>

\* Set, lines 93-99; essnode.node of a nil essnode panics
EnodesSet(index, essnode) ==
    /\ ~node.panicked
    /\ IF index < 0 \/ index >= Len(node.nodes)
       THEN /\ output' = Called(Call("Set", index, essnode, "index out of bounds", Nil))
            /\ UNCHANGED node
       ELSE IF essnode = NilPtr
       THEN /\ node' = [node EXCEPT !.panicked = TRUE]
            /\ UNCHANGED output
       ELSE /\ node' = [node EXCEPT !.nodes[index + 1] = essnode]
            /\ output' = Called(Call("Set", index, essnode, Nil, Nil))
    /\ UNCHANGED <<input, mining, thr>>

\* Append, lines 102-104
EnodesAppend(essnode) ==
    /\ ~node.panicked
    /\ Len(node.nodes) < MaxEnodes
    /\ IF essnode = NilPtr
       THEN /\ node' = [node EXCEPT !.panicked = TRUE]
            /\ UNCHANGED output
       ELSE /\ node' = [node EXCEPT !.nodes = Append(@, essnode), !.appends = @ + 1]
            /\ output' = Called(Call("Append", 0, essnode, Nil, Nil))
    /\ UNCHANGED <<input, mining, thr>>

NextEnodes ==
    \/ EnodesSize
    \/ \E index \in Indices : EnodesGet(index)
    \/ \E index \in Indices, essnode \in ESSNodes \cup {NilPtr} : EnodesSet(index, essnode)
    \/ \E essnode \in ESSNodes \cup {NilPtr} : EnodesAppend(essnode)

SpecEnodes == InitEnodes /\ [][NextEnodes]_vars


(***************************************************************************)
(* Every operation of the core that a caller can run, one caller, fixed    *)
(* wallets: Start, Stop, Etherbase, SetEtherbase, StartMining, StopMining  *)
(* and the miner's goroutine.                                              *)
(***************************************************************************)
InitOps ==
    /\ input \in { [PlainInput EXCEPT !.Clique = c] : c \in {Nil, "clique1"} }
    /\ output = [op |-> "New", res |-> New(input)]
    /\ node = NodeInit
    /\ \E w \in {<<>>, <<<<"0xA">>>>} : mining = MiningInit(output.res.etherbase, w)
    /\ thr = [t \in Threads |-> Idle]

NextOps ==
    \/ Start(1, MaxPeerCount)
    \/ StopCall(1)
    \/ StopStep(1, FALSE)
    \/ EtherbaseCall(1)
    \/ EtherbaseRead(1)
    \/ EtherbaseResolve(1)
    \/ SetEtherbaseCall(1, "0xB")
    \/ SetEtherbaseStep(1)
    \/ \E local \in BOOLEAN : StartMiningCall(1, local)
    \/ \E findErr \in BOOLEAN : StartMiningStep(1, findErr)
    \/ \E eb \in Addrs, more \in BOOLEAN : MinerStart(eb, more)
    \/ StopMining(1)
    \/ Return(1)

SpecOps == InitOps /\ [][NextOps]_vars


(***************************************************************************)
(* The simulation harness, swarm/network/simulation/node.go.  In this      *)
(* specification node holds the network (which nodes are up) and output    *)
(* the frame of the running StartRandomNodes or StopRandomNodes call.      *)
(***************************************************************************)
\* the node ids, in the order s.Net.GetNodes() lists them
SimNodes == 1..MaxSimNodes

\* UpESSNodeIDs (lines 44-52) and DownESSNodeIDs (lines 55-63) for the network up
NodeIDs(up, wantUp) ==
    SelectSeq([k \in SimNodes |-> k], LAMBDA id : up[id] = wantUp)

\* a slice: its backing array and its length; the array may hold more
Slice(arr, len) == [arr |-> arr, len |-> len, panic |-> FALSE]
SlicePanic(arr, len) == [arr |-> arr, len |-> len, panic |-> TRUE]

\* line 344, ids = append(ids[:i], ids[i+1:]...) with i counted from 0: the elements
\* behind position i move one place down inside the backing array, whose last
\* element stays where it was
RemoveAt(s, i) ==
    IF i + 1 > s.len
    THEN SlicePanic(s.arr, s.len)
    ELSE Slice([p \in 1..Len(s.arr) |->
                  IF p >= i + 1 /\ p <= s.len - 1 THEN s.arr[p + 1] ELSE s.arr[p]],
               s.len - 1)

\* lines 342-348 for one excluded id e: the range runs over the n0 elements the slice
\* had when the loop began and reads each from the backing array as it is by then;
\* k counts the range's position from 1, i the source's i from 0
RECURSIVE ExcludeOne(_, _, _, _, _)
ExcludeOne(s, e, i, k, n0) ==
    IF s.panic \/ k > n0
    THEN s
    ELSE IF s.arr[k] = e
    THEN ExcludeOne(RemoveAt(s, i), e, i, k + 1, n0)
    ELSE ExcludeOne(s, e, i + 1, k + 1, n0)

\* lines 340-349: the excluded ids one after the other, each over the slice the
\* one before left
RECURSIVE ExcludeAll(_, _, _)
ExcludeAll(s, exclude, j) ==
    IF s.panic \/ j > Len(exclude)
    THEN s
    ELSE ExcludeAll(ExcludeOne(s, exclude[j], 0, 1, s.len), exclude, j + 1)

\* faulty variant: the exclusion list is ignored
randomNode_NoExclude(arr, len, exclude) == Slice(arr, len)

\* randomNode(ids, exclude...) up to the random choice: the candidates left, in the
\* caller's backing array
randomNode(arr, len, exclude) == ExcludeAll(Slice(arr, len), exclude, 1)

\* no call is running
NoFrame ==
    [ pc    |-> "idle",
      op    |-> Nil,      \* "Start" for StartRandomNodes, "Stop" for StopRandomNodes
      count |-> 0,        \* the argument
      arr   |-> <<>>,     \* downIDs / upIDs: the backing array, of unchanging length
      ids   |-> <<>>,     \* the ids picked so far
      err   |-> Nil,      \* the error returned
      res   |-> <<>>,     \* the ids returned
      up0   |-> {} ]      \* the nodes that were up when the call began

InitSim ==
    /\ input = MaxSimNodes
    /\ node \in [up : [SimNodes -> BOOLEAN]]
    /\ output = NoFrame
    /\ mining = MiningInit(ZeroAddr, <<>>)
    /\ thr = [t \in Threads |-> Idle]

\* StartRandomNodes(count), lines 273-275, and StopRandomNodes(count), lines 305-307
RandomNodesCall(op, count) ==
    /\ output.pc = "idle"
    /\ output' = [NoFrame EXCEPT !.pc = "loop", !.op = op, !.count = count,
                                 !.arr = NodeIDs(node.up, op = "Stop"),
                                 !.up0 = {id \in SimNodes : node.up[id]}]
    /\ UNCHANGED <<input, node, mining, thr>>

\* one turn of the loop of lines 276-286 / 308-318, or the return of line 287 / 319;
\* r: what rand.Intn returns, plus one
RandomNodesStep(r) ==
    /\ output.pc = "loop"
    /\ LET f == randomNode(output.arr, Len(output.arr), output.ids)
           id == f.arr[r]
       IN  IF Len(output.ids) >= output.count
           THEN /\ r = 1
                /\ output' = [output EXCEPT !.pc = "ret", !.res = output.ids]
                /\ UNCHANGED node
           ELSE IF f.panic
           THEN /\ r = 1
                /\ output' = [output EXCEPT !.pc = "panic"]
                /\ UNCHANGED node
           ELSE IF f.len = 0
           THEN /\ r = 1
                /\ output' = [output EXCEPT !.pc = "ret", !.arr = f.arr,
                                            !.err = "ErrNodeNotFound"]
                /\ UNCHANGED node
           ELSE /\ r <= f.len
                /\ IF node.up[id] = (output.op = "Start")
                   THEN /\ output' = [output EXCEPT !.pc = "ret", !.arr = f.arr,
                                                    !.err = "net error"]
                        /\ UNCHANGED node
                   ELSE /\ node' = [node EXCEPT !.up[id] = (output.op = "Start")]
                        /\ output' = [output EXCEPT !.arr = f.arr,
                                                    !.ids = Append(@, id)]
    /\ UNCHANGED <<input, mining, thr>>

\* the call has returned
RandomNodesReturn ==
    /\ output.pc = "ret"
    /\ output' = NoFrame
    /\ UNCHANGED <<input, node, mining, thr>>

NextSim ==
    \/ \E op \in {"Start", "Stop"}, count \in 0..(MaxSimNodes + 1) :
          RandomNodesCall(op, count)
    \/ \E r \in 1..MaxSimNodes : RandomNodesStep(r)
    \/ RandomNodesReturn

SpecSim == InitSim /\ [][NextSim]_vars

InitNew ==
    /\ input \in NewInputs
    /\ output = [op |-> "none", res |-> NoResult]
    /\ node = NodeInit
    /\ mining = MiningInit(ZeroAddr, <<>>)
    /\ thr = [t \in Threads |-> Idle]

CallNew ==
    /\ output.op = "none"
    /\ output' = [op |-> "New", res |-> New(input)]
    /\ UNCHANGED <<input, node, mining, thr>>

CallCreateConsensusEngine ==
    /\ output.op = "none"
    /\ output' = [op |-> "CreateConsensusEngine",
                  res |-> [NoResult EXCEPT !.engine =
                             CreateConsensusEngine(input.PowMode, input.Clique, input.db)]]
    /\ UNCHANGED <<input, node, mining, thr>>

NextNew == CallNew \/ CallCreateConsensusEngine

SpecNew == InitNew /\ [][NextNew]_vars

(***************************************************************************)
(* Properties.                                                             *)
(***************************************************************************)
IsPrefix(a, b) == Len(a) <= Len(b) /\ \A k \in 1..Len(a) : a[k] = b[k]

\* the position of call c in the sequence q, 0 when it is not there
Pos(q, c) == IF \E k \in 1..Len(q) : q[k] = c
             THEN CHOOSE k \in 1..Len(q) : q[k] = c
             ELSE 0

\* the shutdown order with and without an attached extension
OrderWithLes ==
    << "bloomIndexer.Close", "blockchain.Stop", "protocolManager.Stop",
       "lesServer.Stop", "txPool.Stop", "miner.Stop", "eventMux.Stop",
       "chainDb.Close", "close(shutdownChan)" >>
OrderWithoutLes ==
    << "bloomIndexer.Close", "blockchain.Stop", "protocolManager.Stop",
       "txPool.Stop", "miner.Stop", "eventMux.Stop",
       "chainDb.Close", "close(shutdownChan)" >>

\* C1: every call of Stop makes its calls one after the other in the order bloom
\* indexer, chain, protocol manager, extension (only if one is attached), transaction
\* pool, miner, event bus, database, shutdown channel; the database is closed only
\* after the chain and the pool were stopped, the protocol manager is stopped only
\* after the chain, and the shutdown channel is closed only after the database.
C1_StopOrder ==
    /\ \A t \in Threads :
          thr[t].op = "Stop" =>
            /\ \/ IsPrefix(thr[t].trace, OrderWithLes)
               \/ IsPrefix(thr[t].trace, OrderWithoutLes)
            /\ Pos(thr[t].trace, "lesServer.Stop") > 0 => node.lesServer
            /\ (thr[t].flag /\ Pos(thr[t].trace, "txPool.Stop") > 0)
                  => Pos(thr[t].trace, "lesServer.Stop") > 0
    /\ "chainDb.Close" \in node.stopped
          => {"blockchain.Stop", "txPool.Stop"} \subseteq node.stopped
    /\ "protocolManager.Stop" \in node.stopped => "blockchain.Stop" \in node.stopped
    /\ node.closed => "chainDb.Close" \in node.stopped

\* a Stop with an extension attached has returned after all nine calls
C1_Witness ==
    \E t \in Threads :
        /\ thr[t].pc = "StopRet"
        /\ thr[t].trace = OrderWithLes
        /\ node.closed

\* C2: when the only call of Stop returns, it returns nil, it has made every shutdown
\* call (the extension's exactly when one is attached) whatever the subsystems
\* reported and whatever was started before, and the shutdown channel is closed,
\* by one close and without a fault.
C2_StopComplete ==
    thr[1].pc = "StopRet" =>
        /\ thr[1].ret = Nil
        /\ thr[1].trace \in {OrderWithLes, OrderWithoutLes}
        /\ thr[1].flag => thr[1].trace = OrderWithLes
        /\ ~node.lesServer => thr[1].trace = OrderWithoutLes
        /\ {"bloomIndexer.Close", "blockchain.Stop", "protocolManager.Stop",
            "txPool.Stop", "miner.Stop", "eventMux.Stop", "chainDb.Close"}
              \subseteq node.stopped
        /\ node.stopCalls = 1 => node.closed /\ ~node.panicked

\* the only Stop has returned on a node that was never started, never mined and has
\* no extension, although a subsystem reported a failure
C2_Witness ==
    /\ thr[1].pc = "StopRet"
    /\ node.stopCalls = 1
    /\ thr[1].failed
    /\ node.bloomHandlers = 0 /\ node.pmStarts = 0
    /\ ~node.lesServer
    /\ mining.pending = {} /\ mining.coinbase = ZeroAddr /\ ~mining.acceptTxs
    /\ node.closed

\* C3: the shutdown channel is never closed a second time: no sequence of Stop calls
\* reaches the fault of closing a closed channel.
C3_NoDoubleClose ==
    ~node.panicked

\* the case analysis of etherbase resolution inside StartMining, on the step that
\* resolves it: 'read' is the stored etherbase, 'w' the wallets
C4_Resolved(t) ==
    LET read == thr[t].eb
        w == mining.wallets
    IN  IF read # ZeroAddr
        THEN /\ thr'[t].pc = "StartMining" /\ thr'[t].eb = read
             /\ mining' = mining
        ELSE IF Len(w) > 0 /\ Len(w[1]) > 0
        THEN /\ thr'[t].pc = "StartMining" /\ thr'[t].eb = w[1][1]
             /\ mining' = [mining EXCEPT !.etherbase = w[1][1]]
        ELSE /\ thr'[t].pc = "StartMiningRet"
             /\ thr'[t].ret = "etherbase missing"
             /\ thr'[t].trace = <<>>
             /\ mining' = mining

\* C4: StartMining resolves the etherbase as the stored etherbase if it is not zero,
\* otherwise the first account of the first wallet, otherwise it fails with
\* "etherbase missing" and launches no miner; no wallet but the first is consulted.
C4_EtherbasePrecedence ==
    [][ \A t \in Threads :
          (thr[t].op = "StartMining" /\ thr[t].pc = "Etherbase.resolve"
             /\ thr'[t] # thr[t])
            => C4_Resolved(t) ]_vars

\* StartMining failed for want of an etherbase while a later wallet has an account
C4_Witness ==
    /\ thr[1].pc = "StartMiningRet"
    /\ thr[1].ret = "etherbase missing"
    /\ mining.wallets = << <<>>, <<"0xA">> >>
    /\ mining.etherbase = ZeroAddr
    /\ mining.pending = {} /\ ~mining.isMining

\* some wallet of w holds the address a
C5_Holds(w, a) == \E k \in 1..Len(w) : \E j \in 1..Len(w[k]) : w[k][j] = a

\* C5: with a Clique engine, StartMining returns "signer missing" when no wallet
\* holds the resolved etherbase, and whenever it returns that error it has authorised
\* nobody, has not set the accept-transactions flag and has launched no miner; a
\* miner is launched only after the engine was authorised with the resolved etherbase.
C5_SignerMissing ==
    [][ \A t \in Threads :
          /\ (thr[t].op = "StartMining" /\ thr[t].pc = "StartMining" /\ thr[t].i = 1
                /\ thr[t].trace = <<>> /\ thr'[t] # thr[t]
                /\ output.res.engine.kind = "clique"
                /\ ~C5_Holds(mining.wallets, thr[t].eb))
               => thr'[t].pc = "StartMiningRet" /\ thr'[t].ret = "signer missing"
          /\ (thr[t].op = "StartMining" /\ thr'[t].ret = "signer missing"
                /\ thr[t].ret = Nil)
               => /\ mining' = mining
                  /\ thr[t].trace = <<>> /\ thr'[t].trace = <<>>
                  /\ thr'[t].pc = "StartMiningRet"
          /\ (thr[t].op = "StartMining" /\ output.res.engine.kind = "clique"
                /\ mining'.pending # mining.pending /\ thr'[t] # thr[t])
               => /\ mining.authorized = thr[t].eb
                  /\ Pos(thr[t].trace, "clique.Authorize") > 0
                  /\ mining'.pending = mining.pending \cup {thr[t].eb} ]_vars

\* StartMining(true) has returned "signer missing": nothing is authorised, the flag
\* is unset and no miner was launched
C5_Witness ==
    /\ thr[1].pc = "StartMiningRet"
    /\ thr[1].ret = "signer missing"
    /\ thr[1].local
    /\ output.res.engine.kind = "clique"
    /\ mining.authorized = ZeroAddr
    /\ ~mining.acceptTxs
    /\ mining.pending = {} /\ ~mining.isMining

\* C6: once a StartMining(true) has launched the miner, and when it has returned
\* without error, the accept-transactions flag is set: the flag is stored before the
\* goroutine is launched.
C6_FlagBeforeMiner ==
    /\ mining.launchedLocal => mining.acceptTxs
    /\ \A t \in Threads :
          (thr[t].op = "StartMining" /\ thr[t].local
             /\ Pos(thr[t].trace, "go miner.Start") > 0)
            => /\ mining.acceptTxs
               /\ Pos(thr[t].trace, "atomic.StoreUint32(acceptTxs)") > 0
               /\ Pos(thr[t].trace, "atomic.StoreUint32(acceptTxs)")
                     < Pos(thr[t].trace, "go miner.Start")

\* StartMining(true) has returned nil and the miner it launched is mining
C6_Witness ==
    /\ thr[1].pc = "StartMiningRet" /\ thr[1].ret = Nil /\ thr[1].local
    /\ mining.launchedLocal
    /\ mining.isMining
    /\ mining.acceptTxs

\* C7 as stated: whenever LightPeers >= MaxPeers, Start returns an error and starts
\* neither the protocol manager nor the extension.
C7_Original ==
    \A t \in Threads :
        (thr[t].pc = "StartRet" /\ input.LightPeers >= thr[t].i)
          => /\ thr[t].ret # Nil
             /\ Pos(thr[t].trace, "protocolManager.Start") = 0
             /\ Pos(thr[t].trace, "lesServer.Start") = 0

\* C7, amended: whenever light serving is enabled (LightServ > 0) and
\* LightPeers >= MaxPeers, Start returns an error and starts neither the protocol
\* manager nor the extension.
C7_LightPeersRejected ==
    \A t \in Threads :
        (thr[t].pc = "StartRet" /\ input.LightServ > 0 /\ input.LightPeers >= thr[t].i)
          => /\ thr[t].ret # Nil
             /\ Pos(thr[t].trace, "protocolManager.Start") = 0
             /\ Pos(thr[t].trace, "lesServer.Start") = 0

\* Start has failed on LightPeers = MaxPeers with an extension attached, and neither
\* the protocol manager nor the extension has ever been started
C7_Witness ==
    \E t \in Threads :
        /\ thr[t].pc = "StartRet" /\ thr[t].ret # Nil
        /\ input.LightServ > 0 /\ input.LightPeers = thr[t].i
        /\ node.lesServer
        /\ node.pmStarts = 0 /\ node.lesStarts = 0

\* C8: New with sync mode light, or with a mode outside the enumeration, returns an
\* error and no node, and has done nothing before: no database opened, no version
\* marker read or written, no engine, indexer, chain, pool, protocol manager or miner.
C8_SyncModeRejected ==
    (output.op = "New" /\ input.SyncMode \notin {"full", "fast"})
      => /\ output.res.err.kind # Nil
         /\ ~output.res.node
         /\ output.res.log = <<>>
         /\ output.res.marker = input.bcVersion
         /\ output.res.engine = NoEngine
         /\ output.res.chainDb = Nil

\* New was refused for light sync on a database whose marker it would have written
C8_Witness ==
    /\ output.op = "New"
    /\ input.SyncMode = "light"
    /\ ~input.SkipBcVersionCheck /\ input.bcVersion = 0
    /\ ~input.openDbErr /\ input.genesisErr = Nil
    /\ output.res.err.kind = "light sync"

\* New got as far as the version check, with the check enabled
C9_Checked ==
    /\ output.op = "New"
    /\ input.SyncMode \in {"full", "fast"}
    /\ ~input.openDbErr
    /\ input.genesisErr \in {Nil, "compat"}
    /\ ~input.SkipBcVersionCheck

\* C9: with the check enabled, a stored version 0 passes and the marker becomes the
\* current version; a stored version that is neither 0 nor current fails with an
\* error naming the stored and the expected version; the current version passes.
C9_VersionCheck ==
    C9_Checked =>
        /\ input.bcVersion = 0
              => /\ output.res.err.kind # "version mismatch"
                 /\ output.res.marker = input.BlockChainVersion
                 /\ Pos(output.res.log, "WriteDatabaseVersion") > 0
        /\ (input.bcVersion # 0 /\ input.bcVersion # input.BlockChainVersion)
              => /\ output.res.err =
                      [kind |-> "version mismatch", a |-> input.bcVersion,
                       b |-> input.BlockChainVersion]
                 /\ ~output.res.node
        /\ input.bcVersion = input.BlockChainVersion
              => output.res.err.kind # "version mismatch"

\* New failed on a stored version older than the current one
C9_Witness ==
    /\ C9_Checked
    /\ input.bcVersion = 1 /\ input.BlockChainVersion = 2
    /\ output.res.err.kind = "version mismatch"
    /\ output.res.marker = 1

\* C10: whenever a Clique sub-configuration is present, the engine selected is a
\* Clique engine bound to that sub-configuration and to the chain database, whatever
\* the PoW mode.
C10_CliqueWins ==
    (output.op = "CreateConsensusEngine" /\ input.Clique # Nil)
      => /\ output.res.engine.kind = "clique"
         /\ output.res.engine.config = input.Clique
         /\ output.res.engine.db = input.db

\* a Clique engine was selected although the PoW mode is fake
C10_Witness ==
    /\ output.op = "CreateConsensusEngine"
    /\ input.Clique = "clique2" /\ input.PowMode = "fake" /\ input.db = "dbY"
    /\ output.res.engine.kind = "clique"
    /\ output.res.engine.config = "clique2"

\* C11: without a Clique sub-configuration the engine selected is an ethash engine:
\* the fake one for mode fake, the test one for test, the shared one for shared, and
\* for every other mode the real one with CPU mining disabled; an engine is always
\* returned.
C11_PowModeSelects ==
    (output.op = "CreateConsensusEngine" /\ input.Clique = Nil)
      => /\ output.res.engine.kind = "ethash"
         /\ input.PowMode = "fake" => output.res.engine.variant = "fake"
         /\ input.PowMode = "test" => output.res.engine.variant = "test"
         /\ input.PowMode = "shared" => output.res.engine.variant = "shared"
         /\ input.PowMode \notin {"fake", "test", "shared"}
              => /\ output.res.engine.variant = "real"
                 /\ output.res.engine.cpuMining = "disabled"

\* an unrecognised mode has selected the real engine
C11_Witness ==
    /\ output.op = "CreateConsensusEngine"
    /\ input.Clique = Nil /\ input.PowMode = "other"
    /\ output.res.engine.variant = "real"
    /\ output.res.engine.cpuMining = "disabled"

\* C12: a caller that is about to execute the miner's SetEtherbase inside SetEtherbase
\* does not hold the node's lock.
C12_MinerOutsideLock ==
    \A t \in Threads :
        (thr[t].pc = "SetEtherbase" /\ SetEtherbaseCalls[thr[t].i] = "miner.SetEtherbase")
          => mining.lock # t

\* a caller is about to tell the miner while the other caller holds the lock
C12_Witness ==
    \E t, u \in Threads :
        /\ thr[t].pc = "SetEtherbase"
        /\ SetEtherbaseCalls[thr[t].i] = "miner.SetEtherbase"
        /\ mining.etherbase = thr[t].eb
        /\ u # t /\ mining.lock = u

\* C13's step: the caller's Etherbase() comes to its result
C13_Returns ==
    /\ thr[1].op = "Etherbase"
    /\ thr[1].pc = "Etherbase.resolve"
    /\ thr'[1].pc = "EtherbaseRet"

\* C13: with no SetEtherbase, a stored non-zero etherbase never changes and Etherbase()
\* returns it without an error whatever the wallets hold; with a zero one and an account
\* in the first wallet, Etherbase() returns that account and stores it; no step taken
\* while Etherbase() runs changes the engine's authorised signer.
C13_EtherbasePersists ==
    [][ /\ mining.etherbase # ZeroAddr => mining'.etherbase = mining.etherbase
        /\ (C13_Returns /\ mining.etherbase # ZeroAddr)
             => /\ thr'[1].eb = mining.etherbase
                /\ thr'[1].ret = Nil
        /\ (C13_Returns /\ mining.etherbase = ZeroAddr
                        /\ FirstAccount(mining.wallets) # ZeroAddr)
             => /\ thr'[1].eb = FirstAccount(mining.wallets)
                /\ thr'[1].ret = Nil
                /\ mining'.etherbase = FirstAccount(mining.wallets)
        /\ thr[1].op = "Etherbase" => mining'.authorized = mining.authorized
      ]_vars

\* a later Etherbase() has read the automatically stored address although the first
\* wallet no longer offers it, on a node whose engine has authorised nobody
C13_Witness ==
    /\ input.Etherbase = ZeroAddr
    /\ thr[1].op = "Etherbase"
    /\ thr[1].pc = "Etherbase.resolve"
    /\ thr[1].eb # ZeroAddr
    /\ thr[1].eb = mining.etherbase
    /\ FirstAccount(mining.wallets) # thr[1].eb
    /\ IsClique /\ mining.authorized = ZeroAddr

\* C14's case: StartMining(true) is at its return on a node without a PoA engine whose
\* stored etherbase is not zero
C14_Called ==
    /\ thr[1].pc = "StartMiningRet"
    /\ thr[1].local
    /\ ~IsClique
    /\ mining.etherbase # ZeroAddr

\* C14: a constructed node is not mining; StartMining(true) with a non-zero etherbase
\* and no PoA engine returns no error; when neither StopMining nor Stop follows, the
\* miner is eventually mining and transactions are accepted.
C14_MiningStarts ==
    /\ ~mining.isMining
    /\ [](C14_Called => thr[1].ret = Nil)
    /\ C14_Called ~> (mining.isMining /\ mining.acceptTxs)

\* StartMining(true) has returned success while the miner's goroutine has not run yet
C14_Witness ==
    /\ C14_Called
    /\ thr[1].ret = Nil
    /\ mining.pending # {}
    /\ ~mining.isMining
    /\ mining.acceptTxs

\* C15's case: StartMining is at its return with an error
C15_Failed ==
    /\ thr[1].pc = "StartMiningRet"
    /\ thr[1].ret # Nil

\* a step StartMining's caller takes before the call has made any of its three calls;
\* a call that returns an error consists of such steps only
C15_EarlyStep ==
    /\ thr[1].op = "StartMining"
    /\ thr'[1] # thr[1]
    /\ thr'[1].trace = <<>>

\* what every step of a failing StartMining leaves alone
C15_Frame ==
    /\ [](C15_Failed => thr[1].trace = <<>>)
    /\ [][C15_EarlyStep => /\ mining'.acceptTxs = mining.acceptTxs
                           /\ mining'.authorized = mining.authorized
                           /\ mining'.isMining = mining.isMining
                           /\ mining'.pending = mining.pending
                           /\ node' = node]_vars

\* C15 as stated: a StartMining call that returns an error has left the accept flag,
\* the authorised signer, the mining status and the running subsystems as they were,
\* and the stored etherbase is the one the call found
C15_Original ==
    /\ C15_Frame
    /\ [](C15_Failed => mining.etherbase = thr[1].eb0)

\* C15: a StartMining call that returns an error has left the accept flag, the
\* authorised signer, the mining status and the running subsystems as they were; the
\* stored etherbase is the one the call found, unless the call found none, resolved
\* the first wallet's first account, stored it and then failed with "signer missing"
C15_ErrorFrame ==
    /\ C15_Frame
    /\ [](C15_Failed =>
            \/ mining.etherbase = thr[1].eb0
            \/ /\ thr[1].ret = "signer missing"
               /\ thr[1].eb0 = ZeroAddr
               /\ mining.etherbase = thr[1].eb)

\* StartMining has failed with "signer missing" after it stored the etherbase it chose
C15_Witness ==
    /\ C15_Failed
    /\ thr[1].ret = "signer missing"
    /\ thr[1].eb0 = ZeroAddr
    /\ mining.etherbase = thr[1].eb
    /\ mining.etherbase # ZeroAddr

\* nothing but the genesis setup can make New fail on this input
C16_NothingElseFails ==
    /\ input.SyncMode # LightSync /\ IsValid(input.SyncMode)
    /\ ~input.openDbErr /\ ~input.chainErr /\ ~input.pmErr
    /\ \/ input.SkipBcVersionCheck
       \/ input.bcVersion \in {0, input.BlockChainVersion}

\* C16: a configuration-compatibility error from the genesis setup does not fail New:
\* when nothing else fails a node is returned, and whenever the bloom indexer is
\* started the chain was created, then rewound (SetHead), then the chain configuration
\* written, all before the indexer's start; any other genesis error fails New with
\* neither the engine, the chain nor any later component created.
C16_CompatRewinds ==
    output.op = "New" =>
      LET log == output.res.log
      IN  /\ input.genesisErr = "compat" =>
               /\ output.res.err.kind # "genesis"
               /\ C16_NothingElseFails => output.res.node
               /\ output.res.node => Pos(log, "bloomIndexer.Start") > 0
               /\ Pos(log, "bloomIndexer.Start") > 0 =>
                    /\ 0 < Pos(log, "NewBlockChain")
                    /\ Pos(log, "NewBlockChain") < Pos(log, "SetHead")
                    /\ Pos(log, "SetHead") < Pos(log, "WriteChainConfig")
                    /\ Pos(log, "WriteChainConfig") < Pos(log, "bloomIndexer.Start")
          /\ input.genesisErr = "other" =>
               /\ ~output.res.node
               /\ output.res.err # NoErr
               /\ output.res.engine = NoEngine
               /\ \A c \in {"CreateConsensusEngine", "NewBloomIndexer", "NewBlockChain",
                            "SetHead", "WriteChainConfig", "bloomIndexer.Start",
                            "NewTxPool", "NewProtocolManager", "miner.New"} :
                     Pos(log, c) = 0

\* New has returned a node although the genesis setup reported an incompatibility
C16_Witness ==
    /\ output.op = "New"
    /\ input.genesisErr = "compat"
    /\ output.res.node
    /\ Pos(output.res.log, "SetHead") > 0

\* C17: the light-server extension is optional.  AddLesServer attaches it and hands it
\* the bloom indexer.  With none attached Protocols() returns the protocol manager's
\* protocols and neither Start nor Stop calls the extension; with one attached
\* Protocols() returns the protocol manager's protocols followed by the extension's, a
\* Start that succeeds starts the extension last, after the protocol manager, and Stop
\* stops it after the protocol manager and before the transaction pool.
C17_OptionalLes ==
    LET q == thr[1].trace
    IN  /\ node.lesIndexer = node.lesServer
        /\ thr[1].pc = "AddLesServerRet" => node.lesServer
        /\ ~node.lesServer => /\ node.lesStarts = 0
                              /\ "lesServer.Stop" \notin node.stopped
        /\ thr[1].pc = "ProtocolsRet" =>
             /\ ~node.lesServer => q = SubProtocols
             /\ node.lesServer => /\ SubSeq(q, 1, Len(SubProtocols)) = SubProtocols
                                  /\ SubSeq(q, Len(SubProtocols) + 1, Len(q)) = LesProtocols
        /\ thr[1].pc = "StartRet" =>
             /\ Pos(q, "lesServer.Start") > 0 <=> (node.lesServer /\ thr[1].ret = Nil)
             /\ Pos(q, "lesServer.Start") > 0 =>
                  /\ Pos(q, "lesServer.Start") = Len(q)
                  /\ 0 < Pos(q, "protocolManager.Start")
                  /\ Pos(q, "protocolManager.Start") < Pos(q, "lesServer.Start")
        /\ thr[1].pc = "StopRet" =>
             /\ Pos(q, "lesServer.Stop") > 0 <=> node.lesServer
             /\ Pos(q, "lesServer.Stop") > 0 =>
                  /\ 0 < Pos(q, "protocolManager.Stop")
                  /\ Pos(q, "protocolManager.Stop") < Pos(q, "lesServer.Stop")
                  /\ Pos(q, "lesServer.Stop") < Pos(q, "txPool.Stop")

\* Protocols() has returned on a node with an extension that was started and stopped
C17_Witness ==
    /\ thr[1].pc = "ProtocolsRet"
    /\ node.lesServer
    /\ thr[1].trace = SubProtocols \o LesProtocols
    /\ node.lesStarts > 0
    /\ "lesServer.Stop" \in node.stopped

\* C19's step: a call of ServiceFilter for session s
C19_Call(s) ==
    node'.bloom.session[s].calls = node.bloom.session[s].calls + 1

\* C19: every call of ServiceFilter spawns bloomFilterThreads Multiplex goroutines for
\* its session, each with bloomRetrievalBatch, bloomRetrievalWait and the node's
\* bloomRequests channel, and returns without any of them having taken a step.
C19_SpawnsThreads ==
    /\ [](\A s \in Sessions :
            LET ses == node.bloom.session[s]
            IN  /\ ses.spawned = bloomFilterThreads * ses.calls
                /\ ses.calls > 0 => /\ ses.batch = bloomRetrievalBatch
                                    /\ ses.wait = "bloomRetrievalWait"
                                    /\ ses.mux = "ess.bloomRequests")
    /\ [][\A s \in Sessions :
            C19_Call(s) =>
              /\ node'.bloom.session[s].spawned =
                    node.bloom.session[s].spawned + bloomFilterThreads
              /\ node'.bloom.session[s].alloc = node.bloom.session[s].alloc
              /\ node'.bloom.session[s].got = node.bloom.session[s].got
              /\ node'.bloom.pool = node.bloom.pool
              /\ thr'[1].pc = "ServiceFilterRet"]_vars

\* ServiceFilter has returned for the light session while none of the goroutines it
\* spawned has taken a section yet
C19_Witness ==
    /\ thr[1].pc = "ServiceFilterRet"
    /\ node.bloom.session["light"].spawned = bloomFilterThreads
    /\ node.bloom.session["light"].want # {}
    /\ node.bloom.session["light"].alloc = {}
    /\ node.bloomHandlers > 0

C20_ExtraDataBounded ==
    output.op = "makeExtraData" =>
      LET extra == input.ExtraData
          res == output.res
      IN  /\ Len(res) <= MaximumExtraDataSize
          /\ (extra # <<>> /\ Len(extra) <= MaximumExtraDataSize) => res = extra
          /\ (extra = <<>> /\ Len(input.default) <= MaximumExtraDataSize)
               => res = input.default
          /\ Len(extra) > MaximumExtraDataSize => res = <<>>
          /\ (extra = <<>> /\ Len(input.default) > MaximumExtraDataSize) => res = <<>>

\* the synthesized default was too long and has been dropped
C20_Witness ==
    /\ output.op = "makeExtraData"
    /\ input.ExtraData = <<>>
    /\ Len(input.default) > MaximumExtraDataSize
    /\ output.res = <<>>

\* C21: for an Enodes collection, whatever calls were made: Size is the initial size
\* plus the number of Append calls; Get and Set return "index out of bounds" exactly
\* for an index below 0 or not below Size, and such a call leaves the collection as it
\* was; a Set that succeeds changes position index only; and a Get of the index a
\* successful Set has just written returns what was written.
C21_EnodesIndexed ==
    /\ [](Len(node.nodes) = input + node.appends)
    /\ [](output.last.op = "Size" => output.last.res = Len(node.nodes))
    /\ [](output.last.op \in {"Get", "Set"} =>
            (output.last.err = "index out of bounds"
               <=> (output.last.index < 0 \/ output.last.index >= Len(node.nodes))))
    /\ []((/\ output.last.op = "Get" /\ output.prev.op = "Set"
           /\ output.prev.err = Nil /\ output.prev.index = output.last.index)
            => (output.last.err = Nil /\ output.last.res = output.prev.arg))
    /\ [][(output' # output /\ output'.last.op \in {"Get", "Set"}
                            /\ output'.last.err # Nil) => node' = node]_vars
    /\ [][(output' # output /\ output'.last.op = "Set" /\ output'.last.err = Nil) =>
            /\ Len(node'.nodes) = Len(node.nodes)
            /\ \A k \in 1..Len(node.nodes) :
                  node'.nodes[k] = IF k = output'.last.index + 1
                                   THEN output'.last.arg ELSE node.nodes[k]]_vars

\* a Get has returned what the Set before it wrote, in a collection that has grown by
\* an Append and holds another node elsewhere
C21_Witness ==
    /\ output.last.op = "Get" /\ output.prev.op = "Set"
    /\ output.prev.err = Nil /\ output.prev.index = output.last.index
    /\ output.last.res = "n2"
    /\ node.appends > 0
    /\ \E k \in 1..Len(node.nodes) : node.nodes[k] = "n1"

\* C22's step: caller t runs a Start that succeeds
C22_Started(t) ==
    /\ thr[t].pc = "idle"
    /\ thr'[t].pc = "StartRet"
    /\ thr'[t].ret = Nil

\* C22: a Start that succeeds starts the protocol manager once, with MaxPeers minus
\* LightPeers when LightServ > 0, which is then at least 1, and with MaxPeers when
\* LightServ is 0; with LightServ 0 no Start fails, whatever LightPeers is.
C22_PeerBudget ==
    /\ [](\A t \in Threads :
            (thr[t].pc = "StartRet" /\ LightServ = 0) => thr[t].ret = Nil)
    /\ [][\A t \in Threads :
            C22_Started(t) =>
              LET maxPeers == thr'[t].i
              IN  /\ node'.pmStarts = node.pmStarts + 1
                  /\ Len(SelectSeq(thr'[t].trace,
                                   LAMBDA c : c = "protocolManager.Start")) = 1
                  /\ LightServ > 0 => /\ node'.pmBudget = maxPeers - LightPeers
                                      /\ node'.pmBudget >= 1
                  /\ LightServ = 0 => node'.pmBudget = maxPeers]_vars

\* Start has succeeded with light serving off and a reservation that is not below
\* the server's MaxPeers, and the protocol manager got them all
C22_Witness ==
    /\ thr[1].pc = "StartRet"
    /\ thr[1].ret = Nil
    /\ LightServ = 0
    /\ LightPeers >= thr[1].i
    /\ thr[1].i > 0
    /\ node.pmStarts = 1
    /\ node.pmBudget = thr[1].i

\* C23's step: StartMining(true), past the etherbase and (with a PoA engine) the
\* signer, stores the accept-transactions flag
C23_LocalStore ==
    /\ thr[1].op = "StartMining"
    /\ thr[1].pc = "StartMining"
    /\ StartMiningCalls[thr[1].i] = "atomic.StoreUint32(acceptTxs)"
    /\ thr[1].local
    /\ thr[1].eb # ZeroAddr
    /\ IsClique => mining.authorized = thr[1].eb

\* C23: the accept-transactions flag is never reset, and the only step that changes it
\* is StartMining(true)'s store after the etherbase and the signer were resolved; no
\* step of StartMining(false), StopMining, SetEtherbase, Etherbase, Start or Stop
\* changes it.
C23_AcceptTxsMonotonic ==
    [][ /\ mining.acceptTxs => mining'.acceptTxs
        /\ mining'.acceptTxs # mining.acceptTxs => C23_LocalStore
      ]_vars

\* mining was stopped and the node shut down after a SetEtherbase, and the flag a
\* StartMining(true) stored is still set
C23_Witness ==
    /\ mining.acceptTxs
    /\ ~mining.isMining
    /\ mining.coinbase = "0xB" /\ mining.etherbase = "0xB"
    /\ node.closed
    /\ node.pmStarts > 0
    /\ thr[1].pc = "StopMiningRet"

\* C24: while the first Stop is past closing the chain database, or has returned, and
\* no operation was called since, the miner is not mining.
C24_NoMiningAfterStop ==
    (/\ thr[1].op = "Stop"
     /\ node.stopCalls = 1
     /\ "chainDb.Close" \in node.stopped)
      => ~mining.isMining

\* C25: when a SetEtherbase(a) and an Etherbase() or StartMining() that read a zero
\* etherbase have both come to their return, the stored etherbase is a.
C25_ExplicitWins ==
    \A t, u \in Threads :
        (/\ thr[t].pc = "SetEtherbaseRet"
         /\ thr[u].pc \in {"EtherbaseRet", "StartMiningRet"}
         /\ thr[u].eb0 = ZeroAddr)
          => mining.etherbase = thr[t].eb

\* C26: when both callers' SetEtherbase calls have come to their return and no miner
\* start is pending, the miner's etherbase is the node's stored etherbase.
C26_MinerAgrees ==
    (/\ \A t \in Threads : thr[t].pc = "SetEtherbaseRet"
     /\ mining.pending = {})
      => mining.coinbase = mining.etherbase

\* C27's step: caller t runs Start
C27_Start(t) ==
    /\ thr[t].pc = "idle"
    /\ thr'[t].pc = "StartRet"

\* C27: every Start, failing or not, first spawns one more set of bloom workers and
\* then installs the network API; a Start that returns the light-peer error has done
\* exactly that and has started neither the protocol manager nor the extension.
C27_WorkersBeforeValidation ==
    /\ [](\A t \in Threads :
            thr[t].pc = "StartRet" =>
              /\ IsPrefix(<<"startBloomHandlers", "NewPublicNetAPI">>, thr[t].trace)
              /\ thr[t].ret # Nil =>
                   thr[t].trace = <<"startBloomHandlers", "NewPublicNetAPI">>)
    /\ [][\A t \in Threads :
            C27_Start(t) =>
              /\ node'.bloomHandlers = node.bloomHandlers + 1
              /\ node'.netRPC
              /\ thr'[t].ret # Nil => /\ node'.pmStarts = node.pmStarts
                                      /\ node'.lesStarts = node.lesStarts]_vars

\* a second Start has failed on a node with an extension: two sets of workers run,
\* the protocol manager and the extension were never started
C27_Witness ==
    /\ thr[1].pc = "StartRet"
    /\ thr[1].ret = "invalid peer config"
    /\ node.bloomHandlers = 2
    /\ node.netRPC
    /\ node.lesServer
    /\ node.pmStarts = 0
    /\ node.lesStarts = 0

\* New has come as far as the version check: nothing before it failed
C28_Reached ==
    /\ input.SyncMode # LightSync /\ IsValid(input.SyncMode)
    /\ ~input.openDbErr
    /\ input.genesisErr \in {Nil, "compat"}

\* C28: New writes the database version marker exactly when it comes to the version
\* check, the check is enabled and the stored version is 0 or the current one, and the
\* marker is then the current version; otherwise the marker is as it was stored.  A
\* failing check is New's error.  With SkipBcVersionCheck the marker is neither read
\* nor written and New does not fail on the version.
C28_MarkerWritten ==
    output.op = "New" =>
      LET log == output.res.log
          passes == input.bcVersion \in {0, input.BlockChainVersion}
          written == Pos(log, "WriteDatabaseVersion") > 0
      IN  /\ written <=> (C28_Reached /\ ~input.SkipBcVersionCheck /\ passes)
          /\ output.res.marker = IF written THEN input.BlockChainVersion
                                            ELSE input.bcVersion
          /\ (C28_Reached /\ ~input.SkipBcVersionCheck /\ ~passes)
               => /\ output.res.err.kind = "version mismatch"
                  /\ ~output.res.node
          /\ input.SkipBcVersionCheck
               => /\ Pos(log, "ReadDatabaseVersion") = 0
                  /\ ~written
                  /\ output.res.err.kind # "version mismatch"

\* New has returned a node without the check, over a stored version that would have
\* failed it, and the marker is as it was
C28_Witness ==
    /\ output.op = "New"
    /\ input.SkipBcVersionCheck
    /\ input.bcVersion \notin {0, input.BlockChainVersion}
    /\ output.res.node
    /\ output.res.marker = input.bcVersion

\* the nodes that were down (for StartRandomNodes) or up (for StopRandomNodes)
\* when the running call began
C29_Candidates == {id \in SimNodes : (id \in output.up0) = (output.op = "Stop")}

\* C29: StartRandomNodes(count) and StopRandomNodes(count) never pick a node twice
\* within one call: the ids picked are pairwise distinct nodes that were down
\* (respectively up) when the call began, and each of them is started (stopped) from
\* then on, also when the call fails later; a successful call returns exactly count
\* of them; a call whose count exceeds the number of such nodes returns
\* ErrNodeNotFound and no ids.  The exclusion filter of randomNode never indexes out
\* of range and leaves no excluded id among the candidates.
C29_RandomNodesDistinct ==
    /\ output.pc # "panic"
    /\ output.pc # "idle" =>
          /\ \A a, b \in 1..Len(output.ids) : a # b => output.ids[a] # output.ids[b]
          /\ \A a \in 1..Len(output.ids) :
                /\ output.ids[a] \in C29_Candidates
                /\ node.up[output.ids[a]] = (output.op = "Start")
    /\ output.pc = "loop" =>
          LET f == randomNode(output.arr, Len(output.arr), output.ids)
          IN  /\ ~f.panic
              /\ f.len <= Len(f.arr)
              /\ \A r \in 1..f.len, a \in 1..Len(output.ids) : f.arr[r] # output.ids[a]
    /\ (output.pc = "ret" /\ output.err = Nil) =>
          /\ output.res = output.ids
          /\ Len(output.res) = output.count
    /\ (output.pc = "ret" /\ output.count > Cardinality(C29_Candidates)) =>
          /\ output.err = "ErrNodeNotFound"
          /\ output.res = <<>>

\* a call of StartRandomNodes(3) has returned three nodes, the first of them picked
\* from the middle of downIDs, so that the later picks were filtered in a backing
\* array the first exclusion had already shifted
C29_Witness ==
    /\ output.pc = "ret"
    /\ output.op = "Start"
    /\ output.err = Nil
    /\ output.count = 3
    /\ Len(output.res) = 3
    /\ output.res[1] = 2
    /\ output.res[2] = 1

====
